---- MODULE Spec2Model ----
(***************************************************************************)
(* Model of streamlit_app.py: the phone-number checker.                    *)
(*                                                                         *)
(* A phone number is a sequence of one-character strings.  The Japanese    *)
(* labels of the source are written in ASCII:                              *)
(*   risk levels   "safe" (anzen), "caution" (chuui), "danger" (kiken),    *)
(*                 "emergency" (kinkyuu)                                   *)
(*   warnings, details and recommendations are records / strings whose     *)
(*   kind names the literal of the source that produces them.              *)
(* The timestamp field of a result and of a report (datetime.now()) is not *)
(* modelled: no rule of the program reads it.                              *)
(***************************************************************************)
EXTENDS Naturals, Integers, Sequences, FiniteSets, TLC

\* ------------------------------------------------------------------ bounds
\* check_history is unbounded in the code; checks are offered while it is
\* shorter than this.
MaxHist == 1
\* total number of report submissions offered
MaxReports == 2
\* number of scam numbers the add-scam-number form may add
MaxAdded == 1
\* longest string of the normalisation specification
MaxLen == 3

\* ------------------------------------------------------------------ state
VARIABLES
  check_history,       \* st.session_state.check_history
  known_scam_numbers,  \* scam_database["known_scam_numbers"]
  reported_cases,      \* scam_database["reported_cases"]
  last_check,          \* st.session_state.last_check
  gemini_api_key,      \* st.session_state.gemini_api_key ("" or a key)
  ai_enabled,          \* st.session_state.ai_enabled
  GEMINI_AVAILABLE,    \* whether google.generativeai could be imported
  pc,                  \* position inside one call of analyze_phone_number
  number,              \* its argument
  use_ai,              \* its argument
  result,              \* its local `result`
  ai_reply,            \* what the AI service did in this call
  submissions,         \* history variable: report submissions per number
  warning,             \* the st.warning message of the last button press
  ai_called            \* whether the last button press called the AI service

vars == <<check_history, known_scam_numbers, reported_cases, last_check,
          gemini_api_key, ai_enabled, GEMINI_AVAILABLE,
          pc, number, use_ai, result, ai_reply, submissions,
          warning, ai_called>>

db_vars == <<known_scam_numbers, reported_cases>>
ai_vars == <<gemini_api_key, ai_enabled, GEMINI_AVAILABLE>>
call_vars == <<pc, number, use_ai, result, ai_reply>>
run_vars == <<warning, ai_called>>

\* st.warning messages of the button handlers: none, line 670 ("please
\* enter the conversation") and line 659 ("actions to take at once")
NoWarning == "none"
W_ENTER_CONVERSATION == "enter_conversation"
W_IMMEDIATE_ACTIONS == "immediate_actions"

\* a button press that shows no st.warning and does not reach the AI service
QuietRun == warning' = NoWarning /\ ai_called' = FALSE

\* ------------------------------------------------------------ number literals
N_110 == <<"1","1","0">>
N_119 == <<"1","1","9">>
N_118 == <<"1","1","8">>
N_1_1_0 == <<"1","1","-","0">>
N_03_1234_5678 == <<"0","3","-","1","2","3","4","-","5","6","7","8">>
N_0120_999_999 == <<"0","1","2","0","-","9","9","9","-","9","9","9">>
N_050_1111_2222 == <<"0","5","0","-","1","1","1","1","-","2","2","2","2">>
N_090_1234_5678 == <<"0","9","0","-","1","2","3","4","-","5","6","7","8">>
N_03_5555_6666 == <<"0","3","-","5","5","5","5","-","6","6","6","6">>
N_intl_876 == <<"+","1","-","8","7","6","-","5","5","5","-","1","2","3","4">>
N_0120999999 == <<"0","1","2","0","9","9","9","9","9","9">>
N_070_1 == <<"0","7","0","-","1">>
N_0_10_1 == <<"0","-","1","0","-","1">>
N_plus675 == <<"+","6","7","5","1">>

\* ------------------------------------------------------------ string helpers
\* str.startswith
StartsWith(s, p) == Len(p) <= Len(s) /\ SubSeq(s, 1, Len(p)) = p

\* the characters matched by the class [-\s()] of line 306
Separators == {"-", " ", "(", ")"}

\* a buggy normalisation: removes the first character of each run of
\* separators only
NormalizeFirstOfRun(s) ==
  LET keep(i) == \/ s[i] \notin Separators
                 \/ (i > 1 /\ s[i-1] \in Separators)
      idx == {i \in 1..Len(s) : keep(i)}
      F[k \in 0..Len(s)] ==
        IF k = 0 THEN <<>>
        ELSE IF k \in idx THEN Append(F[k-1], s[k]) ELSE F[k-1]
  IN F[Len(s)]

\* re.sub(r'[-\s()]+', '', number)
Normalize(s) == SelectSeq(s, LAMBDA c : c \notin Separators)

Range(s) == {s[i] : i \in 1..Len(s)}

EmergencyNumbers == {N_110, N_119, N_118}

\* ---------------------------------------------------------- identify_area
identify_area(num) ==
  IF StartsWith(num, <<"0","3">>) THEN "Tokyo"
  ELSE IF StartsWith(num, <<"0","6">>) THEN "Osaka"
  ELSE IF StartsWith(num, <<"0","5","2">>) THEN "Nagoya"
  ELSE IF StartsWith(num, <<"0","1","1">>) THEN "Sapporo"
  ELSE IF StartsWith(num, <<"0","9","2">>) THEN "Fukuoka"
  ELSE IF StartsWith(num, <<"0","7","5">>) THEN "Kyoto"
  ELSE "unknown"

\* ---------------------------------------------------- identify_number_type
identify_number_type(norm) ==
  IF StartsWith(norm, <<"0","1","2","0">>)
     \/ StartsWith(norm, <<"0","8","0","0">>) THEN "free_dial"
  ELSE IF StartsWith(norm, <<"0","5","0">>) THEN "ip_phone"
  ELSE IF \/ StartsWith(norm, <<"0","9","0">>)
          \/ StartsWith(norm, <<"0","8","0">>)
          \/ StartsWith(norm, <<"0","7","0">>) THEN "mobile"
  ELSE IF StartsWith(norm, <<"0","5","7","0">>) THEN "navi_dial"
  ELSE IF StartsWith(norm, <<"0">>) THEN "landline"
  ELSE IF StartsWith(norm, <<"+">>) THEN "international"
  ELSE "unknown"

\* ---------------------------------------------------- identify_caller_type
CallerInfo(t, c, cat, d) ==
  [type |-> t, confidence |-> c, category |-> cat, details |-> d]

government_patterns ==
  << <<"0","3","-","3","5","8","1">>, <<"0","3","-","5","2","5","3">>,
     <<"0","3","-","3","5","8","0">>, <<"0","3","-","5","3","2","1">>,
     <<"0","6","-","6","9","4","1">> >>

government_orgs ==
  <<"kasumigaseki", "mhlw_mext", "npa", "tocho", "osaka_fucho">>

bank_patterns ==
  << <<"0","1","2","0","-","8","6">>, <<"0","1","2","0","-","7","7">>,
     <<"0","1","2","0","-","6","5">>, <<"0","1","2","0","-","3","9">> >>

bank_names == <<"mufg", "smbc", "mizuho", "yucho">>

\* index of the first pattern of pats that num starts with, 0 if none
FirstMatch(pats, num) ==
  LET hits == {i \in 1..Len(pats) : StartsWith(num, pats[i])}
  IN IF hits = {} THEN 0 ELSE CHOOSE i \in hits : \A j \in hits : i <= j

identify_caller_type(num, norm) ==
  LET gov == FirstMatch(government_patterns, num)
      bank == FirstMatch(bank_patterns, num)
  IN
  IF norm \in EmergencyNumbers
    THEN CallerInfo("emergency_number", "certain", "public", <<"police_fire_coast">>)
  ELSE IF gov # 0
    THEN CallerInfo("public_institution", "high", "public", <<government_orgs[gov]>>)
  ELSE IF bank # 0
    THEN CallerInfo("financial", "medium", "company", <<bank_names[bank], "verify_genuine">>)
  ELSE IF StartsWith(norm, <<"0","1","2","0">>)
          \/ StartsWith(norm, <<"0","8","0","0">>)
    THEN CallerInfo("customer_support", "medium", "company",
                    <<"free_dial", "often_companies">>)
  ELSE IF StartsWith(norm, <<"0","5","7","0">>)
    THEN CallerInfo("navi_dial", "medium", "company",
                    <<"paid_call", "support_centre">>)
  ELSE IF StartsWith(norm, <<"0","5","0">>)
    THEN CallerInfo("ip_phone_user", "low", "unknown",
                    <<"person_or_company", "anonymous", "abused_for_fraud">>)
  ELSE IF \/ StartsWith(norm, <<"0","9","0">>)
          \/ StartsWith(norm, <<"0","8","0">>)
          \/ StartsWith(norm, <<"0","7","0">>)
    THEN CallerInfo("personal_mobile", "high", "person",
                    <<"personal_contract", "rarely_corporate">>)
  ELSE IF StartsWith(norm, <<"0","2","0">>)
    THEN CallerInfo("pager_m2m", "high", "special", <<"iot">>)
  ELSE IF StartsWith(norm, <<"0">>)
    THEN IF identify_area(num) # "unknown"
           THEN CallerInfo("landline_company_or_home", "medium", "company_or_person",
                           <<identify_area(num), "office_or_home">>)
           ELSE CallerInfo("landline", "low", "unknown", <<>>)
  ELSE IF StartsWith(num, <<"+">>) \/ StartsWith(norm, <<"0","1","0">>)
    THEN CallerInfo("international", "certain", "international",
                    <<"from_abroad", "beware_intl_fraud">>)
  ELSE CallerInfo("unknown", "low", "other", <<>>)

\* ------------------------------------------------------------ static tables
suspicious_prefixes ==
  << <<"0","5","0">>, <<"0","7","0">>, <<"+","6","7","5">>,
     <<"+","2","3","4">>, <<"+","1","-","8","7","6">> >>

\* warning_patterns: ^0120, ^0570, ^0990, ^\+.* ; each is matched with
\* re.match, that is at the start of the raw number, so a pattern is the
\* literal the number must start with.
warning_patterns ==
  << <<"0","1","2","0">>, <<"0","5","7","0">>, <<"0","9","9","0">>, <<"+">> >>

initial_known_scam_numbers ==
  <<N_03_1234_5678, N_0120_999_999, N_050_1111_2222, N_090_1234_5678>>

\* DEFAULT_API_KEY: the environment's key or the built-in one, never empty
\* unless the environment sets it so; "K" stands for a non-empty key.
DEFAULT_API_KEY == "K"

\* ----------------------------------------------------------- result records
Warning(k, p, n) == [kind |-> k, prefix |-> p, n |-> n]
Detail(k, t, d) == [kind |-> k, text |-> t, desc |-> d]

W_KNOWN_SCAM == Warning("known_scam", <<>>, 0)
W_REPORTS(n) == Warning("reports", <<>>, n)
W_PREFIX(p) == Warning("suspicious_prefix", p, 0)
W_PATTERN == Warning("warning_pattern", <<>>, 0)
W_INTL == Warning("international", <<>>, 0)
W_AI(score) == Warning("ai_danger", <<>>, score)

\* ai_analysis = None
NoAI == [kind |-> "none", assessment |-> "none", score |-> 0]

NoCaller == CallerInfo("none", "none", "none", <<>>)

\* last_check = None, and the value of `result` outside a call
NoResult ==
  [original |-> <<>>, normalized |-> <<>>, risk_level |-> "none",
   warnings |-> <<>>, details |-> <<>>, recommendations |-> <<>>,
   ai_analysis |-> NoAI, caller_type |-> NoCaller]

NoReply == [status |-> "not_called", assessment |-> "none"]

\* safe < caution < danger (line 347, 355, 363, 381)
Rank(level) ==
  CASE level = "safe" -> 0
    [] level = "caution" -> 1
    [] level = "danger" -> 2
    [] OTHER -> 3

\* ------------------------------------------------- analyze_phone_number
\* a buggy fresh result: the caller type is taken from the scam database
\* when the number is in it
NewResultScamAware(n) ==
  [original |-> n, normalized |-> Normalize(n), risk_level |-> "safe",
   warnings |-> <<>>, details |-> <<>>, recommendations |-> <<>>,
   ai_analysis |-> NoAI,
   caller_type |-> IF n \in Range(known_scam_numbers)
                     THEN CallerInfo("fraud_group", "high", "other", <<>>)
                     ELSE identify_caller_type(n, Normalize(n))]

\* lines 306-322: normalisation, the fresh result, the caller type
NewResult(n) ==
  [original |-> n, normalized |-> Normalize(n), risk_level |-> "safe",
   warnings |-> <<>>, details |-> <<>>, recommendations |-> <<>>,
   ai_analysis |-> NoAI,
   caller_type |-> identify_caller_type(n, Normalize(n))]

\* a buggy emergency test: the raw input instead of the normalized string
IsEmergencyRaw(r) == r.original \in EmergencyNumbers

\* line 325
IsEmergency(r) == r.normalized \in EmergencyNumbers

\* lines 326-328
EmergencyResult(r) ==
  [r EXCEPT !.risk_level = "emergency",
            !.details = Append(@, Detail("emergency_number", "", <<>>))]

\* a buggy known-scam test: looks the normalized string up in the list
CheckKnownScamNormalized(r) ==
  IF r.normalized \in Range(known_scam_numbers)
    THEN [r EXCEPT !.risk_level = "danger",
                   !.warnings = Append(@, W_KNOWN_SCAM),
                   !.recommendations = @ \o <<"never_answer", "block_caller">>]
    ELSE r

\* lines 331-335
CheckKnownScam(r) ==
  IF r.original \in Range(known_scam_numbers)
    THEN [r EXCEPT !.risk_level = "danger",
                   !.warnings = Append(@, W_KNOWN_SCAM),
                   !.recommendations = @ \o <<"never_answer", "block_caller">>]
    ELSE r

\* lines 338-342: the loop over reported_cases[1..k]
\* a buggy reported-case rule: the warning keeps the count of the first
\* report
CheckReportedFirstCount(r) ==
  IF \E k \in 1..Len(reported_cases) : reported_cases[k].number = r.original
    THEN [r EXCEPT !.risk_level = "danger",
                   !.warnings = Append(@, W_REPORTS(1))]
    ELSE r

RECURSIVE ReportedLoop(_, _)
ReportedLoop(r, k) ==
  IF k = 0 THEN r
  ELSE LET q == ReportedLoop(r, k - 1)
           case == reported_cases[k]
       IN IF case.number = r.original
            THEN [q EXCEPT !.risk_level = "danger",
                           !.warnings = Append(@, W_REPORTS(case.reports)),
                           !.details = Append(@, Detail("report_content", "", case.description))]
            ELSE q

CheckReported(r) == ReportedLoop(r, Len(reported_cases))

\* lines 345-350: the loop over suspicious_prefixes[1..k]
RECURSIVE PrefixLoop(_, _)
PrefixLoop(r, k) ==
  IF k = 0 THEN r
  ELSE LET q == PrefixLoop(r, k - 1)
           prefix == suspicious_prefixes[k]
       IN IF StartsWith(r.normalized, prefix)
            THEN [q EXCEPT !.risk_level = IF @ = "safe" THEN "caution" ELSE @,
                           !.warnings = Append(@, W_PREFIX(prefix)),
                           !.recommendations = Append(@, "handle_carefully")]
            ELSE q

\* a buggy prefix check: warns, and leaves the risk level as it was
CheckPrefixWarnOnly(r) ==
  [PrefixLoop(r, Len(suspicious_prefixes)) EXCEPT !.risk_level = r.risk_level]

\* a buggy prefix check: sets "caution" whatever the level was
CheckPrefixAlwaysCaution(r) ==
  LET q == PrefixLoop(r, Len(suspicious_prefixes))
  IN IF q.warnings # r.warnings THEN [q EXCEPT !.risk_level = "caution"] ELSE q

CheckPrefix(r) == PrefixLoop(r, Len(suspicious_prefixes))

\* lines 353-357: the loop over warning_patterns[1..k]
RECURSIVE PatternLoop(_, _)
PatternLoop(r, k) ==
  IF k = 0 THEN r
  ELSE LET q == PatternLoop(r, k - 1)
       IN IF StartsWith(r.original, warning_patterns[k])
            THEN [q EXCEPT !.risk_level = IF @ = "safe" THEN "caution" ELSE @,
                           !.warnings = Append(@, W_PATTERN)]
            ELSE q

CheckPattern(r) == PatternLoop(r, Len(warning_patterns))

\* a buggy international test: both prefixes looked for in the raw input
IsInternationalRaw(r) ==
  StartsWith(r.original, <<"+">>) \/ StartsWith(r.original, <<"0","1","0">>)

\* line 360
IsInternational(r) ==
  StartsWith(r.original, <<"+">>) \/ StartsWith(r.normalized, <<"0","1","0">>)

\* lines 360-364
CheckInternational(r) ==
  IF IsInternational(r)
    THEN [r EXCEPT !.warnings = Append(@, W_INTL),
                   !.recommendations = Append(@, "do_not_answer_unknown"),
                   !.risk_level = IF @ = "safe" THEN "caution" ELSE @]
    ELSE r

\* lines 367-368
AddDetails(r) ==
  [r EXCEPT !.details = @ \o
     << Detail("number_type", identify_number_type(r.normalized), <<>>),
        Detail("area", identify_area(r.original), <<>>) >>]

\* lines 371-373
AddSafeRecommendations(r) ==
  IF r.risk_level = "safe"
    THEN [r EXCEPT !.recommendations = @ \o <<"no_problem_detected", "beware_requests">>]
    ELSE r

\* lines 330-373: the rule chain without the AI step
BaseChain(n) ==
  AddSafeRecommendations(AddDetails(CheckInternational(CheckPattern(
    CheckPrefix(CheckReported(CheckKnownScam(NewResult(n))))))))

\* ------------------------------------------------------- the AI service
\* What one call of analyze_with_gemini meets:
\*   config_fail   setup_gemini() is False (no key, no library, configure raised)
\*   exception     GenerativeModel / generate_content raised (transport, auth)
\*   json          response.text is a JSON object with some content
\*   json_falsy    response.text is JSON for a falsy value ({}, [], 0, null)
\*   json_nondict  response.text is JSON for a truthy value that is no object
\*   unparseable   response.text is not JSON
Reply(s, a) == [status |-> s, assessment |-> a]

AIReplies ==
  {Reply("config_fail", "none"), Reply("exception", "none"),
   Reply("json", "safe"), Reply("json", "danger"),
   Reply("json_falsy", "none"), Reply("json_nondict", "none"),
   Reply("unparseable", "none")}

\* the replies met in the specification of whole sessions
SessionReplies == (AIReplies \ {Reply("json", "safe")}) \cup {NoReply}

\* setup_gemini: cfg_ok is whether genai.configure returned normally
setup_gemini(cfg_ok) == gemini_api_key # "" /\ GEMINI_AVAILABLE /\ cfg_ok

\* the replies analyze_with_gemini can meet in the current session state
PossibleReplies ==
  IF setup_gemini(TRUE) THEN AIReplies ELSE {Reply("config_fail", "none")}

\* a buggy adapter: the parse-failure stub is returned for an exception too
analyze_with_gemini_StubOnError(o) ==
  CASE o.status = "config_fail" -> NoAI
    [] o.status = "json" -> [kind |-> "dict", assessment |-> o.assessment, score |-> 90]
    [] o.status = "json_falsy" -> [kind |-> "falsy", assessment |-> "none", score |-> 0]
    [] o.status = "json_nondict" -> [kind |-> "nondict", assessment |-> "none", score |-> 0]
    [] OTHER -> [kind |-> "stub", assessment |-> "unknown", score |-> 0]

\* the value analyze_with_gemini returns
analyze_with_gemini(o) ==
  CASE o.status \in {"config_fail", "exception"} -> NoAI
    [] o.status = "json" -> [kind |-> "dict", assessment |-> o.assessment, score |-> 90]
    [] o.status = "json_falsy" -> [kind |-> "falsy", assessment |-> "none", score |-> 0]
    [] o.status = "json_nondict" -> [kind |-> "nondict", assessment |-> "none", score |-> 0]
    [] OTHER -> [kind |-> "stub", assessment |-> "unknown", score |-> 0]

\* `if ai_result:`
Truthy(ai) == ai.kind \in {"dict", "stub", "nondict"}

\* line 376
AIRequested(ua) == ua /\ ai_enabled

\* lines 379-381 raise AttributeError: ai_result has no .get
AICrashes(ua, o) == AIRequested(ua) /\ o.status = "json_nondict"

\* lines 376-383
CheckAI(r, ua, o) ==
  LET ai == analyze_with_gemini(o)
  IN IF AIRequested(ua) /\ Truthy(ai)
       THEN IF ai.assessment = "danger" /\ r.risk_level # "danger"
              THEN [r EXCEPT !.ai_analysis = ai,
                             !.risk_level = "danger",
                             !.warnings = Append(@, W_AI(ai.score))]
              ELSE [r EXCEPT !.ai_analysis = ai]
       ELSE r

\* lines 306-373: `result` when the AI step is reached, or at the early
\* return of line 328
RuleResult(n) ==
  IF IsEmergency(NewResult(n)) THEN EmergencyResult(NewResult(n)) ELSE BaseChain(n)

\* the value analyze_phone_number returns (it returns, ua and o given,
\* unless the AI step raises)
analyze_phone_number(n, ua, o) ==
  LET r == RuleResult(n)
  IN IF IsEmergency(r) THEN r ELSE CheckAI(r, ua, o)

\* the AI step is reached and raises
Raises(n, ua, o) == ~IsEmergency(NewResult(n)) /\ AICrashes(ua, o)

\* what the AI service may do in a call that has come to `r`
RepliesTo(r, ua) ==
  IF AIRequested(ua) /\ ~IsEmergency(r) THEN PossibleReplies ELSE {NoReply}

\* check_history after the call: the early return of line 328 skips line 386
HistoryAfter(r) ==
  IF IsEmergency(r) THEN check_history ELSE Append(check_history, r)

\* ------------------------------------------------------------- input sets
\* numbers typed into the check form
Inputs == {N_110, N_0_10_1, N_070_1}

\* the four sample buttons (lines 603-622)
SampleNumbers ==
  {N_03_5555_6666, N_050_1111_2222, N_090_1234_5678, N_intl_876}

\* numbers checked in the step-by-step specification of one call
ChainInputs ==
  Inputs \cup SampleNumbers \cup
  {N_1_1_0, N_119, N_0120_999_999, N_0120999999, N_plus675}

\* numbers typed into the report form and the add-scam-number form
ReportNumbers == {N_110, N_03_5555_6666}
AddNumbers == {N_110, N_070_1}
ReportDetails == {"d1"}
ReportCategories == {"fraud"}
ApiKeys == {"", "K"}

\* characters of the strings of the normalisation specification
NormChars == {"0", "1", "+", "-", " ", "(", ")"}

\* ------------------------------------------------------------------- Init
Init ==
  /\ check_history = <<>>
  /\ known_scam_numbers = initial_known_scam_numbers
  /\ reported_cases = <<>>
  /\ last_check = NoResult
  /\ gemini_api_key = DEFAULT_API_KEY
  /\ ai_enabled = FALSE
  /\ GEMINI_AVAILABLE \in BOOLEAN
  /\ pc = "idle"
  /\ number = <<>>
  /\ use_ai = FALSE
  /\ result = NoResult
  /\ ai_reply = NoReply
  /\ submissions = [n \in ReportNumbers |-> 0]
  /\ warning = NoWarning
  /\ ai_called = FALSE

\* ------------------------------------------------------- sidebar handlers
\* lines 533-540: the "save API key" button
SaveKey(k, cfg_ok) ==
  /\ pc = "idle"
  /\ gemini_api_key' = k
  /\ ai_enabled' = (k # "" /\ GEMINI_AVAILABLE /\ cfg_ok)
  /\ QuietRun
  /\ UNCHANGED <<check_history, db_vars, last_check, GEMINI_AVAILABLE,
                 call_vars, submissions>>

\* lines 543-551: the "enable AI analysis" checkbox, disabled without a key;
\* the automatic enabling of lines 543-545 is one of its two outcomes
ToggleAI ==
  /\ pc = "idle"
  /\ gemini_api_key # ""
  /\ ai_enabled' = ~ai_enabled
  /\ QuietRun
  /\ UNCHANGED <<check_history, db_vars, last_check, gemini_api_key,
                 GEMINI_AVAILABLE, call_vars, submissions>>

\* ---------------------------------------------------------- report form
TotalReports ==
  LET S[k \in 0..Len(reported_cases)] ==
        IF k = 0 THEN 0 ELSE S[k-1] + reported_cases[k].reports
  IN S[Len(reported_cases)]

\* lines 715-719: index of the first case of the number, 0 if none
ExistingCase(n) ==
  LET hits == {i \in 1..Len(reported_cases) : reported_cases[i].number = n}
  IN IF hits = {} THEN 0 ELSE CHOOSE i \in hits : \A j \in hits : i <= j

DescPart(tag, k, text) == [tag |-> tag, n |-> k, text |-> text]

\* lines 708-713
NewCase(n, cat, d) ==
  [number |-> n, description |-> <<DescPart(cat, 0, d)>>, reports |-> 1]

\* a buggy repeat report: the description grows, the count does not
RepeatReportNoCount(case, d) ==
  [case EXCEPT !.description = Append(@, DescPart("additional", case.reports + 1, d))]

\* lines 722-723
RepeatReport(case, d) ==
  [case EXCEPT !.reports = @ + 1,
               !.description = Append(@, DescPart("additional", case.reports + 1, d))]

\* lines 721-725
CasesAfterReport(n, cat, d) ==
  IF ExistingCase(n) # 0
    THEN [reported_cases EXCEPT ![ExistingCase(n)] = RepeatReport(@, d)]
    ELSE Append(reported_cases, NewCase(n, cat, d))

\* lines 705-727
ReportSubmit(n, cat, d) ==
  /\ pc = "idle"
  /\ n # <<>>
  /\ TotalReports < MaxReports
  /\ reported_cases' = CasesAfterReport(n, cat, d)
  /\ submissions' = [submissions EXCEPT ![n] = @ + 1]
  /\ QuietRun
  /\ UNCHANGED <<check_history, known_scam_numbers, last_check, ai_vars, call_vars>>

\* -------------------------------------------------- add-scam-number form
\* line 754
CanAddScamNumber(n) == n # <<>> /\ n \notin Range(known_scam_numbers)

\* lines 753-757
AddScamNumber(n) ==
  /\ pc = "idle"
  /\ Len(known_scam_numbers) < Len(initial_known_scam_numbers) + MaxAdded
  /\ CanAddScamNumber(n)
  /\ known_scam_numbers' = Append(known_scam_numbers, n)
  /\ QuietRun
  /\ UNCHANGED <<check_history, reported_cases, last_check, ai_vars, call_vars,
                 submissions>>

\* ------------------------------------------------------- statistics page
\* lines 687-690
ClearHistory ==
  /\ pc = "idle"
  /\ check_history # <<>>
  /\ check_history' = <<>>
  /\ QuietRun
  /\ UNCHANGED <<db_vars, last_check, ai_vars, call_vars, submissions>>

\* ------------------------------------------------------ number check page
\* One call result = analyze_phone_number(n, use_ai=ai_enabled) followed by
\* last_check = result (lines 588-589, 605-606, 610-611, 615-616, 620-621).
CheckReturns(n, o) ==
  /\ pc = "idle"
  /\ Len(check_history) < MaxHist
  /\ ~Raises(n, ai_enabled, o)
  /\ LET r == analyze_phone_number(n, ai_enabled, o)
     IN check_history' = HistoryAfter(r) /\ last_check' = r
  /\ warning' = NoWarning
  /\ ai_called' = (o # NoReply)
  /\ UNCHANGED <<db_vars, ai_vars, call_vars, submissions>>

\* The call raises at line 381: the script run ends and nothing is stored.
CheckRaises(n, o) ==
  /\ pc = "idle"
  /\ Len(check_history) < MaxHist
  /\ Raises(n, ai_enabled, o)
  /\ warning' = NoWarning
  /\ ai_called' = TRUE
  /\ UNCHANGED <<check_history, db_vars, last_check, ai_vars, call_vars,
                 submissions>>

CheckNumber(n) ==
  \E o \in RepliesTo(NewResult(n), ai_enabled) \cap SessionReplies :
    CheckReturns(n, o) \/ CheckRaises(n, o)

\* lines 586-589
CheckBtn(n) == n # <<>> /\ CheckNumber(n)

\* lines 603-622
SampleBtn(n) == n \in SampleNumbers /\ CheckNumber(n)

\* line 586 with the button pressed and the input empty: the condition is
\* false, there is no else branch, and the page is drawn again
CheckBtnEmpty ==
  /\ pc = "idle"
  /\ QuietRun
  /\ UNCHANGED <<check_history, db_vars, last_check, ai_vars, call_vars,
                 submissions>>

\* ------------------------------------------------ conversation analysis page
\* lines 132-171: what analyze_conversation_with_gemini can return
ConversationReplies ==
  {"config_fail", "exception", "json_with_actions", "json_plain", "unparseable"}

\* transcripts typed into the text area
ConversationTexts == {"", "t"}

\* lines 637-670: the button is disabled unless ai_enabled; an empty
\* transcript gets the warning of line 670, any other is sent to the AI
\* service and the reply is drawn (line 659 is the only st.warning there).
\* No session state is written.
AnalyzeConversationBtn(text) ==
  /\ pc = "idle"
  /\ ai_enabled
  /\ IF text = ""
       THEN warning' = W_ENTER_CONVERSATION /\ ai_called' = FALSE
       ELSE /\ ai_called' = TRUE
            /\ \E o \in ConversationReplies :
                 warning' = IF o = "json_with_actions"
                              THEN W_IMMEDIATE_ACTIONS ELSE NoWarning
  /\ UNCHANGED <<check_history, db_vars, last_check, ai_vars, call_vars,
                 submissions>>

Handlers ==
  \/ \E k \in ApiKeys, cfg_ok \in BOOLEAN : SaveKey(k, cfg_ok)
  \/ ToggleAI
  \/ \E n \in ReportNumbers, cat \in ReportCategories, d \in ReportDetails :
       ReportSubmit(n, cat, d)
  \/ \E n \in AddNumbers : AddScamNumber(n)

Next ==
  \/ Handlers
  \/ ClearHistory
  \/ \E n \in Inputs : CheckBtn(n)
  \/ \E n \in SampleNumbers : SampleBtn(n)

Spec == Init /\ [][Next]_vars

\* the session with the two handlers that write no session state: the check
\* button with an empty input and the conversation analysis button
NextPages ==
  \/ Next
  \/ CheckBtnEmpty
  \/ \E text \in ConversationTexts : AnalyzeConversationBtn(text)

SpecPages == Init /\ [][NextPages]_vars

\* ------------------------------------ one call of analyze_phone_number,
\* ------------------------------------ statement by statement
\* lines 304-322
Begin(n) ==
  /\ pc = "idle"
  /\ n # <<>>
  /\ number' = n
  /\ use_ai' = ai_enabled
  /\ result' = NewResult(n)
  /\ pc' = "emergency"
  /\ QuietRun
  /\ UNCHANGED <<check_history, db_vars, last_check, ai_vars, ai_reply, submissions>>

Step(from, to, r) ==
  /\ pc = from
  /\ pc' = to
  /\ result' = r
  /\ UNCHANGED <<check_history, db_vars, last_check, ai_vars, number, use_ai,
                 ai_reply, submissions, run_vars>>

\* lines 325-328
StepEmergency ==
  IF IsEmergency(result)
    THEN Step("emergency", "return", EmergencyResult(result))
    ELSE Step("emergency", "known_scam", result)

StepKnownScam == Step("known_scam", "reported", CheckKnownScam(result))
StepReported == Step("reported", "prefix", CheckReported(result))
StepPrefix == Step("prefix", "pattern", CheckPrefix(result))
StepPattern == Step("pattern", "international", CheckPattern(result))
StepInternational == Step("international", "details", CheckInternational(result))
StepDetails == Step("details", "safe_rec", AddDetails(result))
StepSafeRec == Step("safe_rec", "ai", AddSafeRecommendations(result))

\* lines 376-383
StepAI ==
  /\ pc = "ai"
  /\ \E o \in RepliesTo(result, use_ai) :
       /\ ai_reply' = o
       /\ IF AICrashes(use_ai, o)
            THEN pc' = "raised" /\ result' = result
            ELSE pc' = "append" /\ result' = CheckAI(result, use_ai, o)
  /\ ai_called' = (ai_reply' # NoReply)
  /\ UNCHANGED <<check_history, db_vars, last_check, ai_vars, number, use_ai,
                 submissions, warning>>

\* line 386
StepAppend ==
  /\ pc = "append"
  /\ check_history' = Append(check_history, result)
  /\ pc' = "return"
  /\ UNCHANGED <<db_vars, last_check, ai_vars, number, use_ai, result, ai_reply,
                 submissions, run_vars>>

\* lines 328 / 387, then last_check = result at the call site
StepReturn ==
  /\ pc = "return"
  /\ last_check' = result
  /\ pc' = "returned"
  /\ UNCHANGED <<check_history, db_vars, ai_vars, number, use_ai, result, ai_reply,
                 submissions, run_vars>>

NextChain ==
  \/ Handlers
  \/ \E n \in ChainInputs : Begin(n)
  \/ StepEmergency
  \/ StepKnownScam
  \/ StepReported
  \/ StepPrefix
  \/ StepPattern
  \/ StepInternational
  \/ StepDetails
  \/ StepSafeRec
  \/ StepAI
  \/ StepAppend
  \/ StepReturn

\* the session up to and including its first check, the check taken
\* statement by statement
SpecChain == Init /\ [][NextChain]_vars

\* ------------------------------------------- normalisation on its own
RECURSIVE StringsOfLen(_)
StringsOfLen(k) ==
  IF k = 0 THEN {<<>>}
  ELSE {Append(s, c) : s \in StringsOfLen(k - 1), c \in NormChars}

NormStrings == UNION {StringsOfLen(k) : k \in 0..MaxLen}

InitNorm ==
  /\ check_history = <<>>
  /\ known_scam_numbers = initial_known_scam_numbers
  /\ reported_cases = <<>>
  /\ last_check = NoResult
  /\ gemini_api_key = DEFAULT_API_KEY
  /\ ai_enabled = FALSE
  /\ GEMINI_AVAILABLE = TRUE
  /\ pc = "norm_input"
  /\ number \in NormStrings
  /\ use_ai = FALSE
  /\ result = NoResult
  /\ ai_reply = NoReply
  /\ submissions = [n \in ReportNumbers |-> 0]
  /\ warning = NoWarning
  /\ ai_called = FALSE

\* line 306 applied to the input
NormalizeInput ==
  /\ pc = "norm_input"
  /\ result' = [NoResult EXCEPT !.original = number, !.normalized = Normalize(number)]
  /\ pc' = "norm_once"
  /\ UNCHANGED <<check_history, db_vars, last_check, ai_vars, number, use_ai,
                 ai_reply, submissions, run_vars>>

\* line 306 applied to the normalized string
NormalizeAgain ==
  /\ pc = "norm_once"
  /\ result' = [NoResult EXCEPT !.original = result.normalized,
                               !.normalized = Normalize(result.normalized)]
  /\ pc' = "norm_twice"
  /\ UNCHANGED <<check_history, db_vars, last_check, ai_vars, number, use_ai,
                 ai_reply, submissions, run_vars>>

NextNorm == NormalizeInput \/ NormalizeAgain

SpecNorm == InitNorm /\ [][NextNorm]_vars

\* ====================================================================
\* Properties
\* ====================================================================
\* analyze_phone_number is at its return statement, or has returned
Returned == pc \in {"return", "returned"}

AtLeastCaution(r) == r.risk_level \in {"caution", "danger"}

\* C1: for every input whose normalized form is 110, 119 or 118, in every
\* reachable state of the scam database, the result has risk level
\* "emergency" and its warnings and recommendations are empty (none of the
\* known-scam, reported-case, prefix or pattern checks ran).
C1_EmergencyWins ==
  (Returned /\ Normalize(number) \in EmergencyNumbers)
    => /\ result.risk_level = "emergency"
       /\ result.warnings = <<>>
       /\ result.recommendations = <<>>

\* the number 110 is checked when it is in the known-scam list and has a
\* reported case
C1_Witness ==
  /\ pc = "returned"
  /\ number = N_110
  /\ N_110 \in Range(known_scam_numbers)
  /\ ExistingCase(N_110) # 0
  /\ result.risk_level = "emergency"

\* C2 as claimed: checking any element of the known-scam list (the initial
\* list plus the numbers added through the form) returns "danger" and the
\* known-scam warning.
C2_KnownScamIsDanger ==
  (Returned /\ number \in Range(known_scam_numbers))
    => /\ result.risk_level = "danger"
       /\ W_KNOWN_SCAM \in Range(result.warnings)

\* C2 amended: checking any element of the known-scam list whose normalized
\* form is not an emergency number returns "danger" and the known-scam
\* warning.
C2_KnownScamIsDangerUnlessEmergency ==
  (Returned /\ number \in Range(known_scam_numbers)
            /\ Normalize(number) \notin EmergencyNumbers)
    => /\ result.risk_level = "danger"
       /\ W_KNOWN_SCAM \in Range(result.warnings)

\* a number added through the form is checked
C2_Witness ==
  /\ pc = "returned"
  /\ number = N_070_1
  /\ N_070_1 \in Range(known_scam_numbers)
  /\ result.risk_level = "danger"
  /\ W_KNOWN_SCAM \in Range(result.warnings)

\* the input, raw or normalized, starts with a configured suspicious prefix
MatchesSuspiciousPrefix(n) ==
  \E k \in 1..Len(suspicious_prefixes) :
    \/ StartsWith(Normalize(n), suspicious_prefixes[k])
    \/ StartsWith(n, suspicious_prefixes[k])

\* C3: for every input that matches a configured suspicious prefix the risk
\* level returned is at least "caution", never "safe".
C3_PrefixAtLeastCaution ==
  (Returned /\ MatchesSuspiciousPrefix(number)) => AtLeastCaution(result)

\* a number that only the prefix rule catches
C3_Witness ==
  /\ pc = "returned"
  /\ number = N_070_1
  /\ N_070_1 \notin Range(known_scam_numbers)
  /\ result.risk_level = "caution"
  /\ W_PREFIX(<<"0","7","0">>) \in Range(result.warnings)

\* C5: within one execution of analyze_phone_number on a non-emergency
\* input no step of the rule chain replaces the risk level by a lower one
\* (safe < caution < danger).
C5_RiskNeverDowngrades ==
  [][(pc # "idle" /\ ~IsEmergency(result))
        => /\ result'.risk_level \in {"safe", "caution", "danger"}
           /\ Rank(result'.risk_level) >= Rank(result.risk_level)]_vars

\* a known scam number ("danger") has passed the prefix rule, which matched
C5_Witness ==
  /\ pc = "pattern"
  /\ number = N_050_1111_2222
  /\ W_PREFIX(<<"0","5","0">>) \in Range(result.warnings)
  /\ result.risk_level = "danger"

\* C7: for every input that begins with "+" or whose normalized form
\* begins with 010 the result has a risk level of at least "caution" and
\* the international-call warning.
C7_InternationalNotice ==
  (Returned /\ (\/ StartsWith(number, <<"+">>)
                \/ StartsWith(Normalize(number), <<"0","1","0">>)))
    => /\ AtLeastCaution(result)
       /\ W_INTL \in Range(result.warnings)

\* 0-10-1: only the normalized form begins with 010
C7_Witness ==
  /\ pc = "returned"
  /\ number = N_0_10_1
  /\ W_INTL \in Range(result.warnings)
  /\ result.risk_level = "caution"

AIFailed == AIRequested(use_ai) /\ ai_reply.status \in {"config_fail", "exception"}

\* C10: when AI enrichment is requested and the AI service fails
\* (configuration failure, or an exception during the call) the call still
\* returns and records the base classification: risk level, warnings,
\* details and recommendations are those of the same check with AI
\* disabled, and the AI payload is empty.
C10_AIFailureKeepsBase ==
  /\ AIFailed => pc # "raised"
  /\ (Returned /\ AIFailed)
       => /\ result.risk_level = analyze_phone_number(number, FALSE, NoReply).risk_level
          /\ result.warnings = analyze_phone_number(number, FALSE, NoReply).warnings
          /\ result.details = analyze_phone_number(number, FALSE, NoReply).details
          /\ result.recommendations =
               analyze_phone_number(number, FALSE, NoReply).recommendations
          /\ result.ai_analysis = NoAI
          /\ check_history # <<>>
          /\ check_history[Len(check_history)] = result

\* a check with AI requested whose generate_content call raised
C10_Witness ==
  /\ pc = "returned"
  /\ AIRequested(use_ai)
  /\ ai_reply.status = "exception"
  /\ result.risk_level = "caution"
  /\ last_check = result

\* the step-by-step execution arrives at the value of analyze_phone_number
ChainAgrees ==
  Returned => result = analyze_phone_number(number, use_ai, ai_reply)

CaseIndexes(n) == {i \in 1..Len(reported_cases) : reported_cases[i].number = n}

\* one case per reported number, its count the number of submissions
C4_CasesMatchSubmissions ==
  /\ \A i \in 1..Len(reported_cases) : reported_cases[i].number \in ReportNumbers
  /\ \A n \in ReportNumbers :
       /\ submissions[n] = 0 => CaseIndexes(n) = {}
       /\ submissions[n] > 0 =>
            /\ Cardinality(CaseIndexes(n)) = 1
            /\ \A i \in CaseIndexes(n) :
                 /\ reported_cases[i].reports = submissions[n]
                 /\ Len(reported_cases[i].description) = submissions[n]

\* a step keeps every case, and changes only the case of the number reported:
\* its count by one, its description by one appended part
C4_ReportStep ==
  \A i \in 1..Len(reported_cases) :
    /\ i <= Len(reported_cases')
    /\ \/ reported_cases'[i] = reported_cases[i]
       \/ /\ submissions'[reported_cases[i].number]
               = submissions[reported_cases[i].number] + 1
          /\ reported_cases'[i].number = reported_cases[i].number
          /\ reported_cases'[i].reports = reported_cases[i].reports + 1
          /\ Len(reported_cases'[i].description)
               = Len(reported_cases[i].description) + 1
          /\ SubSeq(reported_cases'[i].description, 1,
                    Len(reported_cases[i].description))
               = reported_cases[i].description
          /\ \E d \in ReportDetails :
               reported_cases'[i].description[Len(reported_cases'[i].description)]
                 = DescPart("additional", reported_cases[i].reports + 1, d)

\* a step that lengthens the list appends one case, of a number that had
\* none, with count 1 and the description of that report
C4_FirstReportStep ==
  Len(reported_cases') # Len(reported_cases) =>
    /\ Len(reported_cases') = Len(reported_cases) + 1
    /\ LET new == reported_cases'[Len(reported_cases')]
       IN /\ CaseIndexes(new.number) = {}
          /\ new.reports = 1
          /\ \E cat \in ReportCategories, d \in ReportDetails :
               new.description = <<DescPart(cat, 0, d)>>

\* C4: after any sequence of report submissions with non-empty numbers the
\* reported-cases list holds exactly one case per distinct reported number,
\* the report count of each case is the number of submissions made for that
\* number (a first report creates a case with count 1, a repeat report adds
\* 1 and appends its description), and a report for one number leaves the
\* cases of the other numbers unchanged.
C4_OneCasePerNumber ==
  /\ []C4_CasesMatchSubmissions
  /\ [][C4_ReportStep /\ C4_FirstReportStep]_vars

\* one number was reported twice
C4_Witness ==
  /\ Len(reported_cases) = 1
  /\ reported_cases[1].number = N_03_5555_6666
  /\ reported_cases[1].reports = 2
  /\ submissions[N_03_5555_6666] = 2
  /\ reported_cases[1].description[2] = DescPart("additional", 2, "d1")

\* a call of analyze_phone_number that returns its result to the page
CallReturns ==
  \E n \in Inputs \cup SampleNumbers, o \in AIReplies \cup {NoReply} :
    CheckReturns(n, o)

\* C6: every call of analyze_phone_number that returns a result, for any
\* input, increases the length of check_history by exactly one, and the
\* returned result is the last element of the history.
C6_EveryCheckRecorded ==
  [][CallReturns
       => /\ Len(check_history') = Len(check_history) + 1
          /\ check_history'[Len(check_history')] = last_check']_vars

\* C8: the caller type of a check does not depend on the session state:
\* the caller-type tuple (type, confidence, category, details) of a result
\* just returned equals that of every result held for the same input
\* string, whatever the history, reported cases, known-scam list and AI
\* settings were when that one was made.
C8_CallerTypeStable ==
  [][\A r \in {last_check} \cup Range(check_history) \cup Range(check_history') :
       r.original = last_check'.original
         => r.caller_type = last_check'.caller_type]_vars

\* a number checked before it was added to the known-scam list can be
\* checked again: the session state has changed since the result was made
C8_Witness ==
  /\ last_check.original = N_070_1
  /\ last_check.risk_level = "caution"
  /\ last_check.caller_type.type = "personal_mobile"
  /\ N_070_1 \in Range(known_scam_numbers)
  /\ reported_cases # <<>>
  /\ ai_enabled
  /\ check_history = <<>>

\* C9: normalisation is idempotent: removing the separators from an
\* already-normalized string gives the same string.
C9_NormalizeIdempotent ==
  pc = "norm_twice" => result.normalized = result.original

\* a string with a run of separators has been normalized twice
C9_Witness ==
  /\ pc = "norm_twice"
  /\ number = <<"-", "(", "1">>
  /\ result.original = <<"1">>
  /\ result.normalized = <<"1">>

\* a press of the check button with an empty number, or of the analysis
\* button with an empty transcript
EmptySubmit == CheckBtnEmpty \/ AnalyzeConversationBtn("")

\* the part of C11 about the state: an empty submission leaves the check
\* history, the last-check result and the scam database as they were and
\* does not reach the AI service
EmptySubmitChangesNothing ==
  [][EmptySubmit
       => /\ UNCHANGED <<check_history, last_check, db_vars>>
          /\ ~ai_called']_vars

\* C11: submitting an empty phone number to the number check, or an empty
\* transcript to the conversation analysis, is blocked with a warning
\* message and no processing is attempted: the check history, the
\* last-check result and the scam database are unchanged and the AI service
\* is not called.
C11_EmptyInputBlocked ==
  [][EmptySubmit
       => /\ warning' # NoWarning
          /\ UNCHANGED <<check_history, last_check, db_vars>>
          /\ ~ai_called']_vars

\* the result of a check of n states the present report count of n
StatesReportCount(r, n) ==
  /\ ExistingCase(n) # 0
  /\ r.risk_level = "danger"
  /\ W_REPORTS(reported_cases[ExistingCase(n)].reports) \in Range(r.warnings)

\* the step is a check of n that returns its result to the page: only
\* lines 588-589 and 605-621 assign last_check, only line 386 appends to the
\* history
CheckOf(n) ==
  /\ last_check'.original = n
  /\ last_check' # last_check \/ Len(check_history') > Len(check_history)

\* C12 as claimed: once a report has been submitted for a number string,
\* every later check of that string, after any further reports and checks,
\* returns "danger" and a warning that states the current report count.
C12_ReportedIsDanger ==
  [][\A n \in ReportNumbers :
       (submissions[n] > 0 /\ CheckOf(n)) => StatesReportCount(last_check', n)]_vars

\* C12 amended: once a report has been submitted for a number string whose
\* normalized form is not an emergency number, every later check of that
\* string returns "danger" and a warning that states the current report
\* count.
C12_ReportedIsDangerUnlessEmergency ==
  [][\A n \in ReportNumbers :
       (submissions[n] > 0 /\ Normalize(n) \notin EmergencyNumbers /\ CheckOf(n))
         => StatesReportCount(last_check', n)]_vars

\* a number reported twice has been checked: the result is the last check,
\* it is recorded, and its warning states two reports
C12_Witness ==
  /\ submissions[N_03_5555_6666] = 2
  /\ last_check.original = N_03_5555_6666
  /\ last_check.risk_level = "danger"
  /\ W_REPORTS(2) \in Range(last_check.warnings)
  /\ check_history # <<>>
  /\ check_history[Len(check_history)] = last_check

\* C13: the risk level depends only on the normalized number: in the same
\* state of the scam database, with AI analysis disabled, every input with
\* the same normalized form as the number checked receives the same risk
\* level.
C13_RiskByNormalizedForm ==
  (Returned /\ ~use_ai)
    => \A m \in ChainInputs :
         Normalize(m) = Normalize(number)
           => analyze_phone_number(m, FALSE, NoReply).risk_level = result.risk_level

\* C14: a result contains the "no problem detected" recommendation only if
\* its final risk level is "safe", also when the AI analysis changed the
\* risk level.
C14_NoProblemOnlyIfSafe ==
  (Returned /\ "no_problem_detected" \in Range(result.recommendations))
    => result.risk_level = "safe"

\* C15: every result whose warnings contain the international-call notice
\* has the caller type "international".
C15_InternationalNoticeIsInternational ==
  (Returned /\ W_INTL \in Range(result.warnings))
    => result.caller_type.type = "international"

====
